---- MODULE Spec2Model ----
(***************************************************************************)
(* Model of prochariot (src/src/prochariot/core.py, cli.py).               *)
(*                                                                         *)
(* A Python str is a sequence of one-character strings.  A value held in a *)
(* DataFrame cell is a tagged record: Str(s), NaN (pandas' missing value), *)
(* None (Python's None) or Dict(d); a Python dict is the insertion-ordered *)
(* sequence of its <<key, value>> items, keys unique.                      *)
(***************************************************************************)
EXTENDS Integers, Sequences, FiniteSets, TLC

VARIABLES
    \* ---- the pipeline (core.py test harness, cli.py main) ----
    pc,            \* position in the pipeline
    entry,         \* which entry point runs: "harness" (core.py __main__) or "cli"
    tsv_file,      \* the Bakta .tsv on disk
    df,            \* the caller's DataFrame (result of parse_bakta_tsv)
    json_output,   \* the str returned by _df_to_json
    report_data,   \* what the LLM call / analyze returned
    raised,        \* the exception raised in the run ("none" if none)
    stdout,        \* lines written to standard output
    stderr,        \* lines written to standard error
    exit_code,     \* process exit code, Running while the process runs
    \* ---- _dbxrefs_to_dict called on its own ----
    xpc, entries, dbxrefs, dbxrefs_dict,
    \* ---- the column-name clean-up called on its own ----
    cpc, col, col_clean

pipeline_vars == <<pc, entry, tsv_file, df, json_output, report_data, raised,
                   stdout, stderr, exit_code>>
xref_vars == <<xpc, entries, dbxrefs, dbxrefs_dict>>
cols_vars == <<cpc, col, col_clean>>
vars == <<pipeline_vars, xref_vars, cols_vars>>

\* ------------------------------------------------------------------ bounds
MaxRows == 3        \* data rows of a generated .tsv
MaxEntries == 3     \* entries of a generated cross-reference string
MaxNameLen == 4     \* characters of a generated header name

\* ------------------------------------------------------------------ values
Str(s) == [t |-> "str", s |-> s]
NaN == [t |-> "nan"]
None == [t |-> "none"]
Dict(d) == [t |-> "dict", d |-> d]

\* pd.isna / Series.isna: NaN and None are both missing
IsNa(v) == v.t \in {"nan", "none"}

\* ------------------------------------------------------------------ str helpers
Range(s) == {s[i] : i \in 1..Len(s)}
SetMin(S) == CHOOSE x \in S : \A y \in S : x <= y

\* positions where sep occurs in s
Occurrences(s, sep) ==
    {i \in 1..Len(s) : i + Len(sep) - 1 <= Len(s)
                       /\ \A j \in 1..Len(sep) : s[i + j - 1] = sep[j]}

\* a split that cuts at the last occurrence of sep instead of the first
SplitAtLast(s, sep) ==
    LET hits == Occurrences(s, sep) IN
    IF hits = {} THEN <<s>>
    ELSE LET i == CHOOSE x \in hits : \A y \in hits : y <= x IN
         <<SubSeq(s, 1, i - 1), SubSeq(s, i + Len(sep), Len(s))>>

\* str.split(sep): cut at every occurrence of sep, scanning left to right
RECURSIVE Split(_, _)
Split(s, sep) ==
    LET hits == Occurrences(s, sep) IN
    IF hits = {} THEN <<s>>
    ELSE LET i == SetMin(hits) IN
         <<SubSeq(s, 1, i - 1)>> \o Split(SubSeq(s, i + Len(sep), Len(s)), sep)

\* str.split(sep, 1): cut at the first occurrence of sep only
SplitOnce(s, sep) ==
    LET hits == Occurrences(s, sep) IN
    IF hits = {} THEN <<s>>
    ELSE LET i == SetMin(hits) IN
         <<SubSeq(s, 1, i - 1), SubSeq(s, i + Len(sep), Len(s))>>

\* str.lstrip(chars): drop leading characters while they are in chars
RECURSIVE LStrip(_, _)
LStrip(s, chars) ==
    IF s # <<>> /\ s[1] \in chars THEN LStrip(Tail(s), chars) ELSE s

\* ------------------------------------------------------------------ dict helpers
DictKeys(d) == {d[i][1] : i \in 1..Len(d)}
DictGet(d, k) == d[CHOOSE i \in 1..Len(d) : d[i][1] = k][2]
\* d[k] = v: overwrite in place if k is present, else append
DictSet(d, k, v) ==
    IF k \in DictKeys(d)
    THEN [i \in 1..Len(d) |-> IF d[i][1] = k THEN <<k, v>> ELSE d[i]]
    ELSE Append(d, <<k, v>>)

\* ------------------------------------------------------------------ _dbxrefs_to_dict
CommaSpace == <<",", " ">>
Colon == <<":">>

\* the for loop of _dbxrefs_to_dict over the split entries
RECURSIVE DbxrefsLoop(_, _)
DbxrefsLoop(es, d) ==
    IF es = <<>> THEN d
    ELSE LET e == Head(es) IN
         IF ":" \in Range(e)
         THEN LET kv == SplitOnce(e, Colon) IN
              DbxrefsLoop(Tail(es), DictSet(d, kv[1], kv[2]))
         ELSE DbxrefsLoop(Tail(es), d)

DbxrefsToDict(x) ==
    IF IsNa(x) THEN <<>>
    ELSE DbxrefsLoop(Split(x.s, CommaSpace), <<>>)

\* ------------------------------------------------------------------ inputs of the stand-alone calls
XrefKeys == { <<"K">>, <<"J">>, <<" ", "K">> }
XrefVals == { <<>>, <<"v">>, <<"v", ":", "w">>, <<"w", ",">> }
XrefEntries == XrefKeys \X XrefVals
XrefLists == UNION { [1..n -> XrefEntries] : n \in 0..MaxEntries }

EntryText(e) == e[1] \o Colon \o e[2]
RECURSIVE Join(_, _)
Join(es, sep) ==
    IF es = <<>> THEN <<>>
    ELSE IF Len(es) = 1 THEN EntryText(es[1])
    ELSE EntryText(es[1]) \o sep \o Join(Tail(es), sep)

\* ------------------------------------------------------------------ the .tsv file
\* header=5 of pd.read_csv: the 0-based row of the header, after 5 skipped lines
HeaderRow == 5

SequenceId == <<"S","e","q","u","e","n","c","e"," ","I","d">>
LocusTag == <<"L","o","c","u","s"," ","T","a","g">>
Gene == <<"G","e","n","e">>
Product == <<"P","r","o","d","u","c","t">>
DbXrefs == <<"D","b","X","r","e","f","s">>
Type == <<"T","y","p","e">>

ESSENTIAL_COLS == <<SequenceId, LocusTag, Gene, Product, DbXrefs>>

\* the header line Bakta writes (its numeric columns left out)
BaktaHeader == << <<"#">> \o SequenceId, Type, LocusTag, Gene, Product, DbXrefs >>

\* cell texts of a generated data row, per column
GeneCells == { <<>>, <<"d","n","a","A">> }
ProductCells == { <<>>, <<"p">> }
XrefCells == { <<>>, <<"K",":","v",","," ","J",":","w",":","x">> }
DataRows ==
    { << <<"c","1">>, <<"c","d","s">>, <<"L","1">>, g, p, x >> :
        g \in GeneCells, p \in ProductCells, x \in XrefCells }

MetaLine == << <<"#","m">> >>
MetaLines(k) == [i \in 1..k |-> MetaLine]

\* seq without its j-th element (j = 0: seq itself)
Without(seq, j) ==
    IF j = 0 THEN seq
    ELSE SubSeq(seq, 1, j - 1) \o SubSeq(seq, j + 1, Len(seq))

\* Files on disk: k metadata lines (5 in a well-formed file), then, unless the
\* file was cut short, the header (one column possibly missing) and n data rows.
TsvFiles ==
    { [st |-> "ok",
       lines |-> MetaLines(k) \o << Without(BaktaHeader, j) >>
                 \o [i \in 1..Len(rows) |-> Without(rows[i], j)]] :
        k \in 0..HeaderRow, j \in 0..Len(BaktaHeader),
        rows \in UNION { [1..n -> DataRows] : n \in 0..MaxRows } }
    \cup { [st |-> "ok", lines |-> MetaLines(k)] : k \in 0..HeaderRow }
    \cup { [st |-> "missing", lines |-> <<>>], [st |-> "unreadable", lines |-> MetaLines(HeaderRow) \o <<BaktaHeader>>] }

\* ------------------------------------------------------------------ pandas.read_csv
\* a cell as read_csv holds it: an empty field is NaN, any other text a str
\* (the generated cells are neither numbers nor NA spellings such as "NA")
ReadCell(text) == IF text = <<>> THEN NaN ELSE Str(text)

NoDf == [t |-> "unset"]
DataFrame(columns, rows) == [t |-> "df", columns |-> columns, rows |-> rows]

\* the data lines of the file: everything after the header row
DataLinesSkipFirst(lines) == SubSeq(lines, HeaderRow + 3, Len(lines))
DataLines(lines) == SubSeq(lines, HeaderRow + 2, Len(lines))

\* pd.read_csv(tsv_file, sep="\t", header=5)
ReadCsv(file) ==
    IF file.st = "missing" THEN [raised |-> "FileNotFoundError", df |-> NoDf]
    ELSE IF file.st = "unreadable" THEN [raised |-> "PermissionError", df |-> NoDf]
    ELSE IF Len(file.lines) = 0 THEN [raised |-> "EmptyDataError", df |-> NoDf]
    ELSE IF Len(file.lines) < HeaderRow + 1 THEN [raised |-> "ParserError", df |-> NoDf]
    ELSE LET data == DataLines(file.lines) IN
         [raised |-> "none",
          df |-> DataFrame(file.lines[HeaderRow + 1],
                           [i \in 1..Len(data) |->
                              [j \in 1..Len(data[i]) |-> ReadCell(data[i][j])]])]

\* ------------------------------------------------------------------ DataFrame helpers
HasCol(d, name) == \E j \in 1..Len(d.columns) : d.columns[j] = name
ColIndex(d, name) == CHOOSE j \in 1..Len(d.columns) : d.columns[j] = name
\* df[name]: the column as a sequence of values
Column(d, name) == [i \in 1..Len(d.rows) |-> d.rows[i][ColIndex(d, name)]]
\* SelectSeq on row indices: the rows whose index satisfies keep, in order
RECURSIVE KeptIndices(_, _, _)
KeptIndices(i, n, keep) ==
    IF i > n THEN <<>>
    ELSE (IF keep[i] THEN <<i>> ELSE <<>>) \o KeptIndices(i + 1, n, keep)

\* ------------------------------------------------------------------ parse_bakta_tsv
StripChars == {"#", " "}
\* col.lstrip("# ")
StripOneHash(name) ==
    IF name # <<>> /\ name[1] = "#"
    THEN LStrip(Tail(name), {" "})
    ELSE name
CleanColumnName(name) == LStrip(name, StripChars)

\* a parse that skips the DbXrefs conversion when the column is absent
ParseBaktaTsvLenient(file) ==
    LET r == ReadCsv(file) IN
    IF r.raised # "none" THEN r
    ELSE [raised |-> "none",
          df |-> DataFrame([j \in 1..Len(r.df.columns) |-> CleanColumnName(r.df.columns[j])],
                           r.df.rows)]

\* parse_bakta_tsv: what it raises, or the frame it returns
ParseBaktaTsv(file) ==
    LET r == ReadCsv(file) IN
    IF r.raised # "none" THEN r
    ELSE LET d1 == DataFrame([j \in 1..Len(r.df.columns) |-> CleanColumnName(r.df.columns[j])],
                             r.df.rows) IN
         IF ~HasCol(d1, DbXrefs) THEN [raised |-> "KeyError", df |-> NoDf]
         ELSE LET x == ColIndex(d1, DbXrefs) IN
              [raised |-> "none",
               df |-> DataFrame(d1.columns,
                        [i \in 1..Len(d1.rows) |->
                           [j \in 1..Len(d1.rows[i]) |->
                              IF j = x THEN Dict(DbxrefsToDict(d1.rows[i][j]))
                              ELSE d1.rows[i][j]]])]

\* ------------------------------------------------------------------ JSON text
\* The text is modelled by its syntax tree: an array of objects, an object being
\* the sequence of its <<name, value>> members in the order they are written.
JNull == [j |-> "null"]
JString(s) == [j |-> "string", s |-> s]
JObject(members) == [j |-> "object", members |-> members]
JArray(items) == [j |-> "array", items |-> items]
NoJson == [j |-> "unset"]

\* how DataFrame.to_json writes one cell
CellToJson(v) ==
    IF IsNa(v) THEN JNull
    ELSE IF v.t = "dict"
         THEN JObject([i \in 1..Len(v.d) |-> <<v.d[i][1], JString(v.d[i][2])>>])
    ELSE JString(v.s)

\* DataFrame.to_json(orient="records"): one object per row, one member per column
ToJsonRecords(d) ==
    [i \in 1..Len(d.rows) |->
        JObject([j \in 1..Len(d.columns) |-> <<d.columns[j], CellToJson(d.rows[i][j])>>])]

\* ------------------------------------------------------------------ _df_to_json
\* df.replace({pd.NA: None}): a new frame, every missing value now None
ReplaceNa(d) ==
    DataFrame(d.columns,
        [i \in 1..Len(d.rows) |->
            [j \in 1..Len(d.rows[i]) |-> IF IsNa(d.rows[i][j]) THEN None ELSE d.rows[i][j]]])

\* no pruning: every column is kept
SelectColumnsAll(d, cols) == d

\* df[cols]: a new frame with the listed columns in the listed order
SelectColumns(d, cols) ==
    DataFrame(cols,
        [i \in 1..Len(d.rows) |-> [c \in 1..Len(cols) |-> d.rows[i][ColIndex(d, cols[c])]]])

\* no filter: every row is kept
SelectRowsAll(d, mask) == d
\* the mask taken without its negation: the rows where mask is false
SelectRowsInverted(d, mask) ==
    LET idx == KeptIndices(1, Len(d.rows), [i \in 1..Len(mask) |-> ~mask[i]]) IN
    DataFrame(d.columns, [i \in 1..Len(idx) |-> d.rows[idx[i]]])

\* frame[mask]: the rows where mask is true, in order
SelectRows(d, mask) ==
    LET idx == KeptIndices(1, Len(d.rows), mask) IN
    DataFrame(d.columns, [i \in 1..Len(idx) |-> d.rows[idx[i]]])

\* what line 82 leaves in the caller's frame: replace() without inplace=True
\* builds a new frame and only the local name df is rebound
ArgAfterReplaceInplace(d) == ReplaceNa(d)
ArgAfterReplace(d) == d

\* a projection on whichever whitelisted columns the frame has
DfToJsonExistingCols(d) ==
    LET df1 == ReplaceNa(d)
        have == SelectSeq(ESSENTIAL_COLS, LAMBDA c : HasCol(df1, c))
    IN [raised |-> "none", text |-> JArray(ToJsonRecords(SelectColumns(df1, have))),
        arg_after |-> ArgAfterReplace(d)]

\* _df_to_json: its outcome, and the caller's frame after the call (arg_after)
DfToJson(d) ==
    LET df1 == ReplaceNa(d) IN
    IF \E c \in 1..Len(ESSENTIAL_COLS) : ~HasCol(df1, ESSENTIAL_COLS[c])
    THEN [raised |-> "KeyError", text |-> NoJson, arg_after |-> ArgAfterReplace(d)]
    ELSE LET df_pruned == SelectColumns(df1, ESSENTIAL_COLS)
             gene == Column(df1, Gene)
             df_final == SelectRows(df_pruned, [i \in 1..Len(gene) |-> ~IsNa(gene[i])])
         IN [raised |-> "none", text |-> JArray(ToJsonRecords(df_final)), arg_after |-> ArgAfterReplace(d)]

\* ------------------------------------------------------------------ the pipeline
Running == -1
NoReport == [t |-> "unset"]

\* the exceptions `except Exception` catches; SystemExit derives from BaseException
ExceptionClasses == {"FileNotFoundError", "PermissionError", "EmptyDataError",
                     "ParserError", "KeyError", "ConnectionError"}

\* json.dumps(report_data, indent=2) as the line main writes
JsonDumps(v) == IF v.t = "none" THEN "json:null" ELSE "json:report"

PipelineInit ==
    /\ pc = "init"
    /\ entry = "none"
    /\ df = NoDf
    /\ json_output = NoJson
    /\ report_data = NoReport
    /\ raised = "none"
    /\ stdout = <<>>
    /\ stderr = <<>>
    /\ exit_code = Running

XrefIdle == xpc = "idle" /\ entries = <<>> /\ dbxrefs = NaN /\ dbxrefs_dict = <<>>
ColsIdle == cpc = "idle" /\ col = <<>> /\ col_clean = <<>>

Init ==
    /\ PipelineInit
    /\ tsv_file \in TsvFiles
    /\ XrefIdle
    /\ ColsIdle

\* core.py __main__: the test harness starts the pipeline on TSV_PATH
HarnessStart ==
    /\ pc = "init"
    /\ entry' = "harness"
    /\ pc' = "parse"
    /\ UNCHANGED <<tsv_file, df, json_output, report_data, raised, stdout, stderr, exit_code>>
    /\ UNCHANGED <<xref_vars, cols_vars>>

\* cli.py main: the starting message goes to stderr, then analyze is called
MainStart ==
    /\ pc = "init"
    /\ entry' = "cli"
    /\ stderr' = Append(stderr, "[proChariot] Starting analysis")
    /\ pc' = "analyze"
    /\ UNCHANGED <<tsv_file, df, json_output, report_data, raised, stdout, exit_code>>
    /\ UNCHANGED <<xref_vars, cols_vars>>

\* analyze as it stands in core.py: `pass`, so it returns None
AnalyzeStub ==
    /\ pc = "analyze"
    /\ report_data' = None
    /\ pc' = "echo"
    /\ UNCHANGED <<entry, tsv_file, df, json_output, raised, stdout, stderr, exit_code>>
    /\ UNCHANGED <<xref_vars, cols_vars>>

\* analyze as its docstring and the specification describe it: it runs the
\* pipeline parse -> project/serialize -> LLM call on the located .tsv
AnalyzePipeline ==
    /\ pc = "analyze"
    /\ pc' = "parse"
    /\ UNCHANGED <<entry, tsv_file, df, json_output, report_data, raised, stdout, stderr, exit_code>>
    /\ UNCHANGED <<xref_vars, cols_vars>>

\* df = parse_bakta_tsv(TSV_PATH)
ParseStep ==
    /\ pc = "parse"
    /\ LET r == ParseBaktaTsv(tsv_file) IN
       /\ df' = r.df
       /\ raised' = r.raised
       /\ pc' = IF r.raised = "none" THEN "to_json" ELSE "raise"
    /\ UNCHANGED <<entry, tsv_file, json_output, report_data, stdout, stderr, exit_code>>
    /\ UNCHANGED <<xref_vars, cols_vars>>

\* json_output = _df_to_json(df); the harness then prints the two sizes
DfToJsonStep ==
    /\ pc = "to_json"
    /\ LET r == DfToJson(df) IN
       /\ df' = r.arg_after
       /\ json_output' = r.text
       /\ raised' = r.raised
       /\ pc' = IF r.raised = "none" THEN "llm" ELSE "raise"
       /\ stdout' = IF r.raised = "none" /\ entry = "harness"
                    THEN stdout \o <<"JSON output size", "DataFrame size">>
                    ELSE stdout
    /\ UNCHANGED <<entry, tsv_file, report_data, stderr, exit_code>>
    /\ UNCHANGED <<xref_vars, cols_vars>>

\* _call_groq_llm(json_output); what the environment holds (the API key, the
\* Groq service) is chosen when the call is made
CallGroqLlm ==
    /\ pc = "llm"
    /\ \/ \* GROQ_API_KEY is not set
          /\ raised' = "ConnectionError"
          /\ pc' = "raise"
          /\ UNCHANGED <<stdout, report_data>>
       \/ \* Groq(api_key=...) raises
          /\ stdout' = stdout \o <<"API Key found", "Error: Failed to initialize Groq client">>
          /\ raised' = "SystemExit"
          /\ pc' = "raise"
          /\ UNCHANGED report_data
       \/ \* client.chat.completions.create raises
          /\ stdout' = stdout \o <<"API Key found", "Groq client initialized",
                                   "Error: Failed to get response from Groq API">>
          /\ raised' = "SystemExit"
          /\ pc' = "raise"
          /\ UNCHANGED report_data
       \/ \* the response arrives
          /\ stdout' = stdout \o <<"API Key found", "Groq client initialized">>
          /\ report_data' = Str(<<"r">>)
          /\ pc' = "echo"
          /\ UNCHANGED raised
    /\ UNCHANGED <<entry, tsv_file, df, json_output, stderr, exit_code>>
    /\ UNCHANGED <<xref_vars, cols_vars>>

\* core.py line 222: print(...) of the response; the script then ends
HarnessPrint ==
    /\ pc = "echo" /\ entry = "harness"
    /\ stdout' = Append(stdout, "response")
    /\ exit_code' = 0
    /\ pc' = "done"
    /\ UNCHANGED <<entry, tsv_file, df, json_output, report_data, raised, stderr>>
    /\ UNCHANGED <<xref_vars, cols_vars>>

\* cli.py line 75: the report is written to stdout; the command returns
MainEcho ==
    /\ pc = "echo" /\ entry = "cli"
    /\ stdout' = Append(stdout, JsonDumps(report_data))
    /\ exit_code' = 0
    /\ pc' = "done"
    /\ UNCHANGED <<entry, tsv_file, df, json_output, report_data, raised, stderr>>
    /\ UNCHANGED <<xref_vars, cols_vars>>

\* cli.py lines 77-79: except Exception
MainExcept ==
    /\ pc = "raise" /\ entry = "cli"
    /\ raised \in ExceptionClasses
    /\ stderr' = Append(stderr, "[proChariot] Error")
    /\ exit_code' = 1
    /\ pc' = "done"
    /\ UNCHANGED <<entry, tsv_file, df, json_output, report_data, raised, stdout>>
    /\ UNCHANGED <<xref_vars, cols_vars>>

\* an exception nothing catches in the harness: the interpreter writes the
\* traceback to stderr and exits with 1
HarnessUncaught ==
    /\ pc = "raise" /\ entry = "harness"
    /\ raised \in ExceptionClasses
    /\ stderr' = Append(stderr, "Traceback")
    /\ exit_code' = 1
    /\ pc' = "done"
    /\ UNCHANGED <<entry, tsv_file, df, json_output, report_data, raised, stdout>>
    /\ UNCHANGED <<xref_vars, cols_vars>>

\* sys.exit(1) inside _call_groq_llm: SystemExit is no Exception, nothing
\* catches it, and the process ends with its code
SystemExitEnds ==
    /\ pc = "raise"
    /\ raised = "SystemExit"
    /\ exit_code' = 1
    /\ pc' = "done"
    /\ UNCHANGED <<entry, tsv_file, df, json_output, report_data, raised, stdout, stderr>>
    /\ UNCHANGED <<xref_vars, cols_vars>>

Next ==
    \/ HarnessStart
    \/ MainStart
    \/ AnalyzeStub
    \/ AnalyzePipeline
    \/ ParseStep
    \/ DfToJsonStep
    \/ CallGroqLlm
    \/ HarnessPrint
    \/ MainEcho
    \/ MainExcept
    \/ HarnessUncaught
    \/ SystemExitEnds

Spec == Init /\ [][Next]_vars

\* ------------------------------------------------------------------ _dbxrefs_to_dict on its own
PipelineIdle == PipelineInit /\ tsv_file = [st |-> "missing", lines |-> <<>>]

\* the argument is missing (NaN) or the text of a list of KEY:VALUE entries
\* joined by ", " (the empty list gives the empty string)
XrefInit ==
    /\ PipelineIdle
    /\ ColsIdle
    /\ xpc = "call"
    /\ entries \in XrefLists
    /\ dbxrefs \in {NaN, Str(Join(entries, CommaSpace))}
    /\ dbxrefs_dict = <<>>

CallDbxrefsToDict ==
    /\ xpc = "call"
    /\ dbxrefs_dict' = DbxrefsToDict(dbxrefs)
    /\ xpc' = "return"
    /\ UNCHANGED <<entries, dbxrefs>>
    /\ UNCHANGED <<pipeline_vars, cols_vars>>

XrefNext == CallDbxrefsToDict

SpecXref == XrefInit /\ [][XrefNext]_vars

\* ------------------------------------------------------------------ the column clean-up on its own
NameChars == {"#", " ", "G"}
ColumnNames == UNION { [1..n -> NameChars] : n \in 1..MaxNameLen }

ColsInit ==
    /\ PipelineIdle
    /\ XrefIdle
    /\ cpc = "call"
    /\ col \in ColumnNames
    /\ col_clean = <<>>

CallCleanColumnName ==
    /\ cpc = "call"
    /\ col_clean' = CleanColumnName(col)
    /\ cpc' = "return"
    /\ UNCHANGED col
    /\ UNCHANGED <<pipeline_vars, xref_vars>>

ColsNext == CallCleanColumnName

SpecCols == ColsInit /\ [][ColsNext]_vars

\* ================================================================== claims
\* parse_bakta_tsv has returned or raised in this run
ParseDone ==
    \/ pc \in {"to_json", "llm", "raise"}
    \/ pc \in {"echo", "done"} /\ report_data # None
\* _df_to_json has returned or raised in this run
DfToJsonDone == df # NoDf /\ pc \in {"llm", "raise", "echo", "done"}

IsHeaderLine(line) == \E j \in 0..Len(BaktaHeader) : line = Without(BaktaHeader, j)
\* 5 metadata lines, the header (with its DbXrefs column) on line 6, then data rows
WellFormed(file) ==
    /\ file.st = "ok"
    /\ Len(file.lines) >= HeaderRow + 1
    /\ \A i \in 1..HeaderRow : file.lines[i] = MetaLine
    /\ IsHeaderLine(file.lines[HeaderRow + 1])
    /\ DbXrefs \in Range(file.lines[HeaderRow + 1])

\* The JSON parser the claims read the text with (json.loads): an object becomes
\* a dict, a repeated name keeping its last value, null becomes None
RECURSIVE LoadMembers(_, _)
LoadMembers(members, d) ==
    IF members = <<>> THEN d
    ELSE LET m == Head(members) IN
         LoadMembers(Tail(members),
            DictSet(d, m[1],
               IF m[2].j = "null" THEN None
               ELSE IF m[2].j = "string" THEN Str(m[2].s)
               ELSE Dict([i \in 1..Len(m[2].members) |->
                            <<m[2].members[i][1], m[2].members[i][2].s>>])))
\* json.loads of the whole text: a list of dicts
JsonLoads(text) == [i \in 1..Len(text.items) |-> LoadMembers(text.items[i].members, <<>>)]

\* indices of the rows of d whose Gene is present
NamedRows(d) == {i \in 1..Len(d.rows) : ~IsNa(d.rows[i][ColIndex(d, Gene)])}
\* the k-th of them in table order
NthNamed(d, k) ==
    CHOOSE i \in NamedRows(d) : Cardinality({m \in NamedRows(d) : m < i}) = k - 1
\* a parsed JSON object says what the table row says in the whitelisted columns
\* (a missing value being null)
SameRecord(obj, d, i) ==
    \A c \in Range(ESSENTIAL_COLS) :
       /\ c \in DictKeys(obj)
       /\ LET v == d.rows[i][ColIndex(d, c)]
              w == DictGet(obj, c)
          IN IF IsNa(v) THEN w.t = "none"
             ELSE w.t = v.t /\ (v.t = "str" => w.s = v.s) /\ (v.t = "dict" => w.d = v.d)

\* ---- C1 ----
\* C1 as stated: at return, a missing or empty argument gives the empty dict, and
\* for the text of a ", "-separated list of KEY:VALUE entries the dict has exactly
\* the entries' keys and sends EVERY entry's key to that entry's value.
C1_EveryEntryMapped ==
    xpc = "return" =>
       IF IsNa(dbxrefs) \/ dbxrefs.s = <<>> THEN dbxrefs_dict = <<>>
       ELSE /\ DictKeys(dbxrefs_dict) = {entries[i][1] : i \in 1..Len(entries)}
            /\ \A i \in 1..Len(entries) : DictGet(dbxrefs_dict, entries[i][1]) = entries[i][2]

\* C1 amended: as above, but a key that several entries share is sent to the
\* value of the LAST entry with that key; every key occurs once in the dict.
C1_LastEntryWins ==
    xpc = "return" =>
       IF IsNa(dbxrefs) \/ dbxrefs.s = <<>> THEN dbxrefs_dict = <<>>
       ELSE /\ DictKeys(dbxrefs_dict) = {entries[i][1] : i \in 1..Len(entries)}
            /\ Len(dbxrefs_dict) = Cardinality(DictKeys(dbxrefs_dict))
            /\ \A i \in 1..Len(entries) :
                  (\A m \in (i + 1)..Len(entries) : entries[m][1] # entries[i][1])
                     => DictGet(dbxrefs_dict, entries[i][1]) = entries[i][2]

\* a list whose value contains ':' and whose first two entries share a key with
\* different values has been converted
C1_Witness ==
    /\ xpc = "return"
    /\ ~IsNa(dbxrefs)
    /\ Len(entries) = 3
    /\ entries[1][1] = entries[2][1] /\ entries[1][2] # entries[2][2]
    /\ entries[3][2] = <<"v", ":", "w">>
    /\ Len(dbxrefs_dict) = 2

\* ---- C8 ----
\* C8 as stated: the cleaned name is the name without exactly one leading '#' and
\* the spaces after it, and a name not starting with '#' is unchanged.
C8_OneHashRemoved ==
    cpc = "return" =>
       IF col[1] = "#"
       THEN \E k \in 1..Len(col) :
               /\ \A m \in 2..k : col[m] = " "
               /\ (k < Len(col) => col[k + 1] # " ")
               /\ col_clean = SubSeq(col, k + 1, Len(col))
       ELSE col_clean = col

\* C8 amended: the cleaned name is the name without its longest prefix made of
\* '#' and ' ' characters only (any number, any order); a name that starts with
\* neither is unchanged.
C8_LeadingHashesAndSpacesRemoved ==
    cpc = "return" =>
       \E k \in 0..Len(col) :
          /\ \A m \in 1..k : col[m] \in {"#", " "}
          /\ (k < Len(col) => col[k + 1] \notin {"#", " "})
          /\ col_clean = SubSeq(col, k + 1, Len(col))

\* "# #G" has been cleaned to "G": more than one '#' was removed
C8_Witness ==
    /\ cpc = "return"
    /\ col = <<"#", " ", "#", "G">>
    /\ col_clean = <<"G">>

\* ---- C2 ----
\* C2: once parse_bakta_tsv has run on a well-formed file with n data rows, it has
\* returned a frame of exactly n records, the i-th holding the cells of the i-th
\* data row (an empty cell as NaN), and every DbXrefs value is a dict.
C2_OneRecordPerRowInOrder ==
    (ParseDone /\ WellFormed(tsv_file)) =>
       /\ df # NoDf
       /\ Len(df.rows) = Len(tsv_file.lines) - (HeaderRow + 1)
       /\ \A i \in 1..Len(df.rows) :
             LET line == tsv_file.lines[HeaderRow + 1 + i] IN
             /\ Len(df.rows[i]) = Len(line)
             /\ \A j \in 1..Len(line) :
                   IF df.columns[j] = DbXrefs THEN df.rows[i][j].t = "dict"
                   ELSE IF line[j] = <<>> THEN df.rows[i][j] = NaN
                   ELSE df.rows[i][j].t = "str" /\ df.rows[i][j].s = line[j]

\* a well-formed file of two different data rows, the second with no DbXrefs
\* text and the first with some, has been parsed
C2_Witness ==
    /\ pc = "to_json"
    /\ WellFormed(tsv_file)
    /\ Len(df.rows) = 2
    /\ df.rows[1] # df.rows[2]
    /\ df.rows[1][ColIndex(df, DbXrefs)].d # <<>>
    /\ df.rows[2][ColIndex(df, DbXrefs)].d = <<>>

\* ---- C3 ----
\* the file cannot be parsed: it is missing, unreadable, shorter than 6 lines, or
\* no name of its line 6 is DbXrefs once cleaned
Unparsable(file) ==
    \/ file.st \in {"missing", "unreadable"}
    \/ Len(file.lines) < HeaderRow + 1
    \/ \A j \in 1..Len(file.lines[HeaderRow + 1]) :
          CleanColumnName(file.lines[HeaderRow + 1][j]) # DbXrefs

\* C3 as stated: on such a file parse_bakta_tsv fails with a ParseError and
\* returns no table.
C3_FailsWithParseError ==
    (ParseDone /\ Unparsable(tsv_file)) => (raised = "ParseError" /\ df = NoDf)

\* C3 amended: on such a file parse_bakta_tsv returns no table and raises the
\* exception of the failing call: FileNotFoundError, PermissionError,
\* pandas' EmptyDataError (no line at all) or ParserError (1 to 5 lines), or KeyError.
C3_FailsWithTheCallsException ==
    (ParseDone /\ Unparsable(tsv_file)) =>
       /\ df = NoDf
       /\ json_output = NoJson
       /\ pc \in {"raise", "done"}
       /\ raised = (IF tsv_file.st = "missing" THEN "FileNotFoundError"
                    ELSE IF tsv_file.st = "unreadable" THEN "PermissionError"
                    ELSE IF Len(tsv_file.lines) = 0 THEN "EmptyDataError"
                    ELSE IF Len(tsv_file.lines) < HeaderRow + 1 THEN "ParserError"
                    ELSE "KeyError")

\* a readable file of 6 lines or more whose line 6 has no DbXrefs column and which
\* has data rows made parse_bakta_tsv raise
C3_Witness ==
    /\ pc = "raise"
    /\ raised = "KeyError"
    /\ df = NoDf
    /\ tsv_file.st = "ok"
    /\ Len(tsv_file.lines) > HeaderRow + 1
    /\ \A i \in 1..HeaderRow : tsv_file.lines[i] = MetaLine

\* ---- C4 ----
\* C4: when _df_to_json has returned, the parsed payload holds exactly the
\* records of the table whose Gene is present, in table order: as many objects
\* as named rows, the k-th object saying what the k-th named row says, and no
\* object has a null Gene.
C4_ExactlyTheNamedRowsInOrder ==
    json_output # NoJson =>
       LET payload == JsonLoads(json_output) IN
       /\ Len(payload) = Cardinality(NamedRows(df))
       /\ \A k \in 1..Len(payload) :
             /\ SameRecord(payload[k], df, NthNamed(df, k))
             /\ ~IsNa(DictGet(payload[k], Gene))

\* a table of three rows, the second without Gene and the two others different,
\* was projected to a payload of two records
C4_Witness ==
    /\ json_output # NoJson
    /\ Len(df.rows) = 3
    /\ NamedRows(df) = {1, 3}
    /\ df.rows[1] # df.rows[3]
    /\ Len(json_output.items) = 2

\* ---- C5 ----
\* C5 as stated: the payload has exactly as many records as the input table.
C5_RowCountPreserved ==
    json_output # NoJson => Len(json_output.items) = Len(df.rows)

\* C5 amended: _df_to_json takes no named_genes_only argument and always drops
\* the rows with a null Gene: the payload has as many records as the table has
\* rows minus its rows with a null Gene, so the row count is preserved exactly
\* when no Gene is null.
C5_RowCountMinusUnnamed ==
    json_output # NoJson =>
       LET unnamed == {i \in 1..Len(df.rows) : IsNa(Column(df, Gene)[i])} IN
       /\ Len(json_output.items) = Len(df.rows) - Cardinality(unnamed)
       /\ (Len(json_output.items) = Len(df.rows)) <=> (unnamed = {})

\* a table of two rows with null Gene was projected to an empty payload
C5_Witness ==
    /\ json_output # NoJson
    /\ Len(df.rows) = 2
    /\ \A i \in 1..2 : IsNa(Column(df, Gene)[i])
    /\ json_output.items = <<>>

\* ---- C6 ----
\* C6: the JSON text is an array with one object per retained record, in order;
\* each object has the names of ESSENTIAL_COLS, each once and no other, in the
\* text and after parsing; a retained null value is an explicit null.
C6_KeysAreExactlyTheWhitelist ==
    json_output # NoJson =>
       LET payload == JsonLoads(json_output) IN
       /\ Len(payload) = Cardinality(NamedRows(df))
       /\ \A k \in 1..Len(payload) :
             /\ [c \in 1..Len(json_output.items[k].members) |-> json_output.items[k].members[c][1]]
                   = ESSENTIAL_COLS
             /\ [c \in 1..Len(payload[k]) |-> payload[k][c][1]] = ESSENTIAL_COLS
             /\ \A c \in Range(ESSENTIAL_COLS) :
                   IsNa(df.rows[NthNamed(df, k)][ColIndex(df, c)])
                      => (c \in DictKeys(payload[k]) /\ DictGet(payload[k], c) = None)

\* a table with the non-whitelisted Type column and a named row whose Product is
\* missing was serialized
C6_Witness ==
    /\ json_output # NoJson
    /\ HasCol(df, Type)
    /\ Len(json_output.items) = 2
    /\ DictGet(JsonLoads(json_output)[2], Product) = None
    /\ DictGet(JsonLoads(json_output)[1], Product) # None

\* ---- C7 ----
\* a whitelisted column is absent from the frame
LacksEssential(d) == \E c \in Range(ESSENTIAL_COLS) : ~HasCol(d, c)

\* C7 as stated: on such a table _df_to_json fails with a SchemaError and
\* produces no payload.
C7_FailsWithSchemaError ==
    (DfToJsonDone /\ LacksEssential(df)) => (raised = "SchemaError" /\ json_output = NoJson)

\* C7 amended: on such a table _df_to_json produces no payload and raises the
\* KeyError of the column selection df[ESSENTIAL_COLS].
C7_FailsWithKeyError ==
    (DfToJsonDone /\ LacksEssential(df)) =>
       /\ raised = "KeyError"
       /\ json_output = NoJson
       /\ pc \in {"raise", "done"}

\* a parsed table of two rows without the Gene column made _df_to_json raise
C7_Witness ==
    /\ pc = "raise"
    /\ df # NoDf
    /\ ~HasCol(df, Gene)
    /\ HasCol(df, Product)
    /\ Len(df.rows) = 2
    /\ raised = "KeyError"

\* ---- C9 ----
ErrorLine == "[proChariot] Error"
ReportLines == {"json:null", "json:report"}

C10_CallerFrameUnchanged ==
    [][pc = "to_json" => df' = df]_vars

\* _df_to_json has returned a payload for a table that has a null Gene, a null
\* Product and the non-whitelisted Type column, and the table still has them as NaN
C10_Witness ==
    /\ json_output # NoJson
    /\ HasCol(df, Type)
    /\ \E i \in 1..Len(df.rows) : df.rows[i][ColIndex(df, Gene)] = NaN
    /\ \E i \in 1..Len(df.rows) : df.rows[i][ColIndex(df, Product)] = NaN

====
